---- MODULE Spec2Model ----
(***************************************************************************)
(* The Sefaria MCP server: the tool handlers that register_tools binds to  *)
(* a FastMCP instance (tools.py) and the process entry point with its      *)
(* discovery routes and metric objects (main.py).                          *)
(*                                                                         *)
(* Python values are tagged records.  Text is a sequence of Unicode code   *)
(* points, so that encoding (UTF-8), JSON serialisation and str() are      *)
(* computed the way the interpreter computes them.                         *)
(***************************************************************************)
EXTENDS Integers, Sequences, FiniteSets, Bags, TLC

\* ------------------------------------------------------------------ bounds

\* Tool invocations started in one behaviour.
MaxCalls == 2

\* GET requests to the well-known paths in one behaviour.
MaxRequests == 3

\* ---------------------------------------------------------------- state

VARIABLES
  pending,        \* bag of the invocations suspended at their await
  completed,      \* bag of the invocations that ended: what the operation did,
                  \* the calls the handler made, and how the handler ended
  calls_total,    \* mcp_tool_calls_total: the count by <<tool, status>>
  duration_count, \* mcp_tool_duration_seconds: the observations by tool
  proc,           \* the server process: its state and its startup events
  http            \* the GETs made to the well-known paths, answered or not

\* ------------------------------------------------------- Python value model

Str(s) == [kind |-> "str", chars |-> s, items |-> <<>>, strOk |-> TRUE]

Bytes(b) == [kind |-> "bytes", chars |-> b, items |-> <<>>, strOk |-> TRUE]

\* A list of str items (the JSON-shaped structures of the operations).
List(xs) == [kind |-> "list", chars |-> <<>>, items |-> xs, strOk |-> TRUE]

\* Any other object: json.dumps rejects it; str() gives `text`, or raises.
Obj(text, ok) == [kind |-> "object", chars |-> text, items |-> <<>>, strOk |-> ok]

\* Placeholder of a record field that holds no value.
Nothing == [kind |-> "nothing", chars |-> <<>>, items |-> <<>>, strOk |-> TRUE]

\* What an operation or a handler did: returned `value`, or raised `error`.
Returned(v) == [raised |-> FALSE, value |-> v, error |-> ""]

Raised(e) == [raised |-> TRUE, value |-> Nothing, error |-> e]

\* U+D800..U+DFFF: a str may hold them, UTF-8 cannot encode them.
IsSurrogate(c) == c >= 55296 /\ c <= 57343

Utf8Bytes(c) == IF c < 128 THEN 1 ELSE IF c < 2048 THEN 2 ELSE IF c < 65536 THEN 3 ELSE 4

RECURSIVE Utf8Len(_)
Utf8Len(s) == IF s = <<>> THEN 0 ELSE Utf8Bytes(Head(s)) + Utf8Len(Tail(s))

Encodable(s) == \A i \in 1..Len(s) : ~IsSurrogate(s[i])

\* len(s.encode()): the UTF-8 length, or UnicodeEncodeError.
encoded_len(s) ==
  IF Encodable(s) THEN [raised |-> FALSE, n |-> Utf8Len(s), error |-> ""]
  ELSE [raised |-> TRUE, n |-> 0, error |-> "UnicodeEncodeError"]

HexDigit(d) == IF d < 10 THEN 48 + d ELSE 87 + d

\* \uXXXX, lower-case hex, as json and repr write an escaped code unit.
UEscape(c) ==
  <<92, 117, HexDigit(c \div 4096), HexDigit((c \div 256) % 16),
    HexDigit((c \div 16) % 16), HexDigit(c % 16)>>

\* json.dumps(..., ensure_ascii=False) of one character of a str: the quote,
\* the backslash and the control characters are escaped, the rest is kept.
JsonEscapeChar(c) ==
  IF c = 34 THEN <<92, 34>>
  ELSE IF c = 92 THEN <<92, 92>>
  ELSE IF c = 10 THEN <<92, 110>>
  ELSE IF c = 13 THEN <<92, 114>>
  ELSE IF c = 9 THEN <<92, 116>>
  ELSE IF c = 8 THEN <<92, 98>>
  ELSE IF c = 12 THEN <<92, 102>>
  ELSE IF c < 32 THEN UEscape(c)
  ELSE <<c>>

RECURSIVE JsonEscape(_)
JsonEscape(s) == IF s = <<>> THEN <<>> ELSE JsonEscapeChar(Head(s)) \o JsonEscape(Tail(s))

JsonString(s) == <<34>> \o JsonEscape(s) \o <<34>>

\* The items of a list, each a JSON string, joined by ", ".
RECURSIVE JsonItems(_)
JsonItems(xs) ==
  IF xs = <<>> THEN <<>>
  ELSE IF Len(xs) = 1 THEN JsonString(xs[1])
  ELSE JsonString(Head(xs)) \o <<44, 32>> \o JsonItems(Tail(xs))

\* json.dumps(v, ensure_ascii=False): the text, or TypeError for a value
\* that is not JSON serializable (bytes, arbitrary objects).
json_dumps(v) ==
  IF v.kind = "str" THEN [raised |-> FALSE, s |-> JsonString(v.chars), error |-> ""]
  ELSE IF v.kind = "list"
    THEN [raised |-> FALSE, s |-> <<91>> \o JsonItems(v.items) \o <<93>>, error |-> ""]
  ELSE [raised |-> TRUE, s |-> <<>>, error |-> "TypeError"]

\* repr() of one character of a str: the backslash, the control characters
\* and the surrogates are escaped, the printable characters are kept.
ReprChar(c) ==
  IF c = 92 THEN <<92, 92>>
  ELSE IF c = 10 THEN <<92, 110>>
  ELSE IF c = 13 THEN <<92, 114>>
  ELSE IF c = 9 THEN <<92, 116>>
  ELSE IF c < 32 THEN <<92, 120, HexDigit(c \div 16), HexDigit(c % 16)>>
  ELSE IF IsSurrogate(c) THEN UEscape(c)
  ELSE <<c>>

RECURSIVE ReprChars(_)
ReprChars(s) == IF s = <<>> THEN <<>> ELSE ReprChar(Head(s)) \o ReprChars(Tail(s))

\* repr() writes a str in single quotes, or in double quotes when it holds a
\* single quote and no double quote (strs holding both are not modelled).
ReprQuote(s) ==
  IF (\E i \in 1..Len(s) : s[i] = 39) /\ ~(\E i \in 1..Len(s) : s[i] = 34) THEN 34 ELSE 39

ReprStr(s) == <<ReprQuote(s)>> \o ReprChars(s) \o <<ReprQuote(s)>>

RECURSIVE ReprItems(_)
ReprItems(xs) ==
  IF xs = <<>> THEN <<>>
  ELSE IF Len(xs) = 1 THEN ReprStr(xs[1])
  ELSE ReprStr(Head(xs)) \o <<44, 32>> \o ReprItems(Tail(xs))

\* str(v): the text itself for a str, the repr for a list, and whatever
\* __str__ gives for an object: its text, or the error it raises.
py_str(v) ==
  IF v.kind = "str" THEN [raised |-> FALSE, s |-> v.chars, error |-> ""]
  ELSE IF v.kind = "list"
    THEN [raised |-> FALSE, s |-> <<91>> \o ReprItems(v.items) \o <<93>>, error |-> ""]
  ELSE IF v.strOk THEN [raised |-> FALSE, s |-> v.chars, error |-> ""]
  ELSE [raised |-> TRUE, s |-> <<>>, error |-> "StrError"]

\* _payload_size(payload): [raised, n, error].
_payload_size(payload) ==
  IF payload.kind = "bytes" THEN [raised |-> FALSE, n |-> Len(payload.chars), error |-> ""]
  ELSE IF payload.kind = "str" THEN encoded_len(payload.chars)
  ELSE LET d == json_dumps(payload)
       IN  IF ~d.raised /\ ~encoded_len(d.s).raised THEN encoded_len(d.s)
           ELSE LET t == py_str(payload)
                IN  IF t.raised THEN [raised |-> TRUE, n |-> 0, error |-> t.error]
                    ELSE encoded_len(t.s)

\* ------------------------------------------------------------ tools.py

\* The tools register_tools registers, by the form of their return statement.

\* `return result`
RawTools ==
  {"get_text", "get_current_calendar", "english_semantic_search",
   "get_links_between_texts", "get_english_translations", "get_topic_details",
   "clarify_name_argument", "get_text_or_category_shape",
   "get_text_catalogue_info", "get_available_manuscripts"}

\* `return result if isinstance(result, str) else json.dumps(result, ensure_ascii=False)`
NormalizingTools ==
  {"text_search", "search_in_book", "search_in_dictionaries",
   "clarify_search_path_filter"}

\* `return json.dumps(result, ensure_ascii=False)`
DumpingTools == {"get_manuscript_image"}

Tools == RawTools \cup NormalizingTools \cup DumpingTools

\* The argument tuple a caller passes (get_current_calendar takes none).  The
\* handlers only format it into the first log line and hand it to the operation.
Args == {"Genesis 1:1"}

ArgsOf(tool) == IF tool = "get_current_calendar" THEN {"()"} ELSE Args

\* What the awaited operation of .logic can hand back: a str with a quote
\* and a Hebrew letter, a str with a lone surrogate, bytes, a list of str, a
\* list whose item holds a lone surrogate, an object whose str() works, an
\* object whose str() raises.
OpValues ==
  {Str(<<34, 1488>>), Str(<<55296>>), Bytes(<<255>>), List(<<<<1488>>>>),
   List(<<<<55296>>>>), Obj(<<60, 111, 62>>, TRUE), Obj(<<>>, FALSE)}

\* The errors the awaited operation can raise.
OpErrors == {"HTTPError", "TimeoutError"}

\* ctx.log(f"[tool] called with ...")
LogCalled(tool, args) == [event |-> "log_called", tool |-> tool, args |-> args]

\* await _operation(ctx.log, ...)
OpCall(tool, args) == [event |-> "op_call", tool |-> tool, args |-> args]

\* ctx.log(f"[tool] response size: {n} bytes")
LogResponseSize(tool, n) == [event |-> "log_response_size", tool |-> tool, size |-> n]

\* The handler up to its await: the first log call, then the operation call.
handler_start(tool, args) == <<LogCalled(tool, args), OpCall(tool, args)>>

\* The return statement of the handler of `tool`, given the operation's result.
tool_return(tool, result) ==
  IF tool \in RawTools THEN Returned(result)
  ELSE IF tool \in NormalizingTools /\ result.kind = "str" THEN Returned(result)
  ELSE LET d == json_dumps(result)
       IN  IF d.raised THEN Raised(d.error) ELSE Returned(Str(d.s))

\* The handler after its operation returned `result`: the second log call,
\* whose message holds _payload_size(result), then the return statement.
handler_success(tool, args, result) ==
  LET size == _payload_size(result)
  IN  IF size.raised THEN [events |-> <<>>, outcome |-> Raised(size.error)]
      ELSE [events |-> <<LogResponseSize(tool, size.n)>>,
            outcome |-> tool_return(tool, result)]

\* A handler that catches the operation's error and answers with the
\* document {} instead.
handler_resume_swallow(tool, args, op) ==
  IF op.raised THEN [events |-> <<>>, outcome |-> Returned(Str(<<123, 125>>))]
  ELSE handler_success(tool, args, op.value)

\* A handler that answers an invocation it has already served (same tool,
\* same arguments, same outcome of the operation) with an empty payload.
handler_resume_dedup(tool, args, op) ==
  IF \E c \in BagToSet(completed) : c.tool = tool /\ c.args = args /\ c.op = op
  THEN [events |-> <<>>, outcome |-> Returned(Str(<<>>))]
  ELSE IF op.raised THEN [events |-> <<>>, outcome |-> Raised(op.error)]
  ELSE handler_success(tool, args, op.value)

\* The handler from the point its await completes with `op`: an error of the
\* operation propagates out of the handler (no try statement encloses the
\* await); a value goes through the rest of the body.
handler_resume(tool, args, op) ==
  IF op.raised THEN [events |-> <<>>, outcome |-> Raised(op.error)]
  ELSE handler_success(tool, args, op.value)

\* ------------------------------------------------------------- main.py

\* The names tools.py binds at module level.
ToolsModuleNames ==
  {"List", "Optional", "json", "FastMCP", "Context", "_get_text", "_search_texts",
   "_get_situational_info", "_knn_search", "_get_english_translations",
   "_get_links", "_get_name", "_get_text_or_category_shape", "_get_topics",
   "_get_available_manuscripts", "_search_in_book", "_search_in_dictionaries",
   "_get_search_path_filter", "_get_manuscript_image", "_get_index",
   "register_tools"}

\* from .tools import register_tools, set_metrics
MainImports == {"register_tools", "set_metrics"}

metrics_port == 9090

transport_port == 8088

\* The body of main.py: the import either binds every name or raises
\* ImportError, which ends the process before anything else is executed.
module_init == IF MainImports \subseteq ToolsModuleNames THEN "loaded" ELSE "ImportError"

\* start_metrics_server(): start_http_server, with OSError logged as a warning.
start_metrics_server(portBound) ==
  IF portBound THEN <<[event |-> "warning", port |-> metrics_port]>>
  ELSE <<[event |-> "metrics_listening", port |-> metrics_port]>>

\* main(): the metrics server, then mcp.run.
main(portBound) ==
  start_metrics_server(portBound) \o <<[event |-> "transport_started", port |-> transport_port]>>

\* Running the entry point in an environment where the metrics port is bound or not.
run_process(portBound) ==
  IF module_init = "loaded"
  THEN [state |-> "serving", portBound |-> portBound, events |-> main(portBound)]
  ELSE [state |-> "import_error", portBound |-> portBound, events |-> <<>>]

PROTECTED_RESOURCE_DOC ==
  [resource |-> "https://devmcp.sefaria.org", authorization_servers |-> <<>>]

\* The JSON object {}.
EmptyObject == <<>>

ProtectedResourcePaths ==
  {"/.well-known/oauth-protected-resource", "/.well-known/oauth-protected-resource/sse"}

AuthorizationServerPaths ==
  {"/.well-known/oauth-authorization-server",
   "/.well-known/oauth-authorization-server/sse"}

WellKnownPaths == ProtectedResourcePaths \cup AuthorizationServerPaths

\* The four route handlers: JSONResponse of a fixed document.
well_known_route(path) ==
  IF path \in ProtectedResourcePaths
  THEN [answered |-> TRUE, status |-> 200, body |-> PROTECTED_RESOURCE_DOC]
  ELSE [answered |-> TRUE, status |-> 200, body |-> EmptyObject]

\* A GET when no process is serving: the connection is refused.
NoResponse == [answered |-> FALSE, status |-> 0, body |-> EmptyObject]

\* ---------------------------------------------------- initial state, steps

vars == <<pending, completed, calls_total, duration_count, proc, http>>

gateway_vars == <<pending, completed, calls_total, duration_count>>

main_vars == <<proc, http>>

Statuses == {"success", "error"}

Init ==
  /\ pending = EmptyBag
  /\ completed = EmptyBag
  /\ calls_total = [k \in Tools \X Statuses |-> 0]
  /\ duration_count = [t \in Tools |-> 0]
  /\ proc = [state |-> "not_started", portBound |-> FALSE, events |-> <<>>]
  /\ http = <<>>

\* A client invokes a tool: the handler logs, calls the operation and
\* suspends at the await.
Invoke(tool, args) ==
  /\ BagCardinality(pending) + BagCardinality(completed) < MaxCalls
  /\ pending' = pending (+) SetToBag({[tool |-> tool, args |-> args,
                                       trace |-> handler_start(tool, args)]})
  /\ UNCHANGED <<completed, calls_total, duration_count, main_vars>>

\* The handler of the pending invocation p runs from its await to its end.
Complete(p, op) ==
  LET r == handler_resume(p.tool, p.args, op)
  IN  /\ BagIn(p, pending)
      /\ pending' = pending (-) SetToBag({p})
      /\ completed' = completed (+) SetToBag({[tool |-> p.tool, args |-> p.args,
                                              op |-> op,
                                              trace |-> p.trace \o r.events,
                                              outcome |-> r.outcome]})
      /\ UNCHANGED <<calls_total, duration_count, main_vars>>

\* The awaited operation returns a value.
OpReturns == \E p \in BagToSet(pending) : \E v \in OpValues : Complete(p, Returned(v))

\* The awaited operation raises.
OpRaises == \E p \in BagToSet(pending) : \E e \in OpErrors : Complete(p, Raised(e))

\* The entry point is run (python -m sefaria_mcp.main, or the console script).
StartProcess ==
  /\ proc.state = "not_started"
  /\ \E portBound \in BOOLEAN : proc' = run_process(portBound)
  /\ UNCHANGED <<gateway_vars, http>>

\* A client GETs a well-known path of the process that was started.
GetWellKnown ==
  /\ proc.state # "not_started"
  /\ Len(http) < MaxRequests
  /\ \E path \in WellKnownPaths :
       http' = Append(http, [path |-> path,
                             response |-> IF proc.state = "serving"
                                          THEN well_known_route(path)
                                          ELSE NoResponse])
  /\ UNCHANGED <<gateway_vars, proc>>

Next ==
  \/ \E tool \in Tools : \E args \in ArgsOf(tool) : Invoke(tool, args)
  \/ OpReturns
  \/ OpRaises

\* The tool handlers, as registered on a FastMCP instance.
Spec == Init /\ [][Next]_vars

NextMain ==
  \/ StartProcess
  \/ GetWellKnown

\* The process started from main.py and the requests made to it.
SpecMain == Init /\ [][NextMain]_vars

\* --------------------------------------------------------------- claims

\* The distinct records of the invocations that ended.
Done == BagToSet(completed)

RECURSIVE Copies(_)
Copies(S) ==
  IF S = {} THEN 0
  ELSE LET r == CHOOSE x \in S : TRUE IN CopiesIn(r, completed) + Copies(S \ {r})

\* The invocations of `tool` that ended by returning / by raising.
Succeeded(tool) == Copies({r \in Done : r.tool = tool /\ ~r.outcome.raised})

Failed(tool) == Copies({r \in Done : r.tool = tool /\ r.outcome.raised})

\* C1: after N successful and M failed invocations of a tool T, the call
\* counter of {T, success} is N, that of {T, error} is M, and the duration
\* histogram of T holds N+M observations.
ClaimC1 ==
  \A tool \in Tools :
    /\ calls_total[<<tool, "success">>] = Succeeded(tool)
    /\ calls_total[<<tool, "error">>] = Failed(tool)
    /\ duration_count[tool] = Succeeded(tool) + Failed(tool)

\* C2: whatever the operation returned (a str, a structure, any other value),
\* an invocation that returns hands a str to the transport.
ClaimC2 == \A r \in Done : ~r.outcome.raised => r.outcome.value.kind = "str"

\* C3: when the operation returns a str, the payload an invocation returns
\* is that very str, unchanged.
ClaimC3 ==
  \A r \in Done :
    (~r.op.raised /\ r.op.value.kind = "str" /\ ~r.outcome.raised)
      => r.outcome.value = r.op.value

\* C4: when the operation returns a value that cannot be JSON-serialized, the
\* invocation still returns, and what it returns is a str.
ClaimC4 ==
  \A r \in Done :
    (~r.op.raised /\ json_dumps(r.op.value).raised)
      => (~r.outcome.raised /\ r.outcome.value.kind = "str")

\* C5: when the operation raises, the invocation ends by raising that same
\* error: it returns no result and raises no other error.
TheoremC5 == \A r \in Done : r.op.raised => r.outcome = Raised(r.op.error)

\* An invocation whose operation raised has ended.
WitnessC5 == \E r \in Done : r.op.raised /\ r.outcome.raised /\ r.outcome.error \in OpErrors

\* C6: computing the payload size never raises, whatever the operation
\* returned, so it never fails an invocation whose operation succeeded.
ClaimC6 ==
  \A r \in Done :
    ~r.op.raised =>
      /\ ~_payload_size(r.op.value).raised
      /\ _payload_size(r.op.value).n >= 0
      /\ r.outcome.raised => r.outcome.error \notin {"UnicodeEncodeError", "StrError"}

\* C7: a started process has attempted the metrics server first and then
\* started the session transport; with the metrics port already bound the
\* attempt is a logged warning and the transport is started all the same.
ClaimC7 ==
  proc.state # "not_started" =>
    /\ Len(proc.events) = 2
    /\ proc.events[1].event \in {"metrics_listening", "warning"}
    /\ proc.portBound => proc.events[1].event = "warning"
    /\ proc.events[2].event = "transport_started"

\* C8: every GET of a protected-resource path is answered with the fixed
\* document whose authorization_servers list is empty, and every GET of an
\* authorization-server path with the empty object, whatever came before.
ClaimC8 ==
  \A i \in 1..Len(http) :
    /\ http[i].response.answered
    /\ http[i].path \in ProtectedResourcePaths =>
         /\ http[i].response.body.resource = "https://devmcp.sefaria.org"
         /\ http[i].response.body.authorization_servers = <<>>
    /\ http[i].path \in AuthorizationServerPaths => http[i].response.body = <<>>

ClaimC10 ==
  \A r \in Done :
    (~r.outcome.raised /\ r.outcome.value.kind = "str"
       /\ Encodable(r.outcome.value.chars)) =>
      /\ Len(r.trace) = 3
      /\ r.trace[3].event = "log_response_size"
      /\ r.trace[3].size = Utf8Len(r.outcome.value.chars)

\* C11: every invocation makes, in this order, the log call naming the tool
\* and its arguments, the operation call, and the "response size" log call;
\* an invocation that ended has made all three, whether its operation
\* returned (and the handler returned a result) or raised.
ClaimC11 ==
  /\ \A p \in BagToSet(pending) :
       p.trace = <<LogCalled(p.tool, p.args), OpCall(p.tool, p.args)>>
  /\ \A r \in Done :
       (r.op.raised \/ ~r.outcome.raised) =>
         /\ Len(r.trace) = 3
         /\ r.trace[1] = LogCalled(r.tool, r.args)
         /\ r.trace[2] = OpCall(r.tool, r.args)
         /\ r.trace[3].event = "log_response_size"
         /\ r.trace[3].tool = r.tool

====
